---- MODULE Spec2Model ----
(***************************************************************************)
(* GeoSpot: a GeoJSON dataset service (upload, list, retrieve, delete)     *)
(* and its React client.                                                   *)
(*                                                                         *)
(* Spec models the dataset store (tables datasets and features), the       *)
(* ingestion pipeline run by concurrent upload requests, and               *)
(* deleteDataset.  The readers of the store see the committed rows only:   *)
(* the variables datasets and features are the committed tables, tx holds  *)
(* the rows written by a transaction that has not yet committed.           *)
(* SpecRead adds the reads of the client (getDataset, getDatasets,         *)
(* getDatasetGeoJSON) to the store.  SpecDetail models the DatasetDetail   *)
(* page, in the two files that define it, reading a store of two datasets. *)
(* SpecList models the DatasetList page over a store of 101 datasets,      *)
(* SpecPages the two pages that delete datasets, SpecUpload the Upload     *)
(* page, and SpecLayout the theme kept by initializeTheme and Layout.      *)
(***************************************************************************)
EXTENDS Integers, Sequences, FiniteSets, TLC

VARIABLES
    datasets,        \* committed rows of table datasets
    features,        \* committed rows of table features
    nextDatasetId,   \* the SERIAL sequence of datasets.id
    nextFeatureId,   \* the SERIAL sequence of features.id
    pc,              \* the step each upload request handler is at
    req,             \* the validated upload each handler is persisting
    tx,              \* the uncommitted rows of each handler's transaction
    aborted,         \* dataset ids allocated by transactions rolled back
    started,         \* number of upload requests received so far
    mode,            \* which inputs the behaviour draws: "store" or "validate"
    lastOp,          \* the operation that completed last, with its result
    lastRead,        \* the read the client made last, with what it got
    version,         \* DatasetDetail: the file the component is built from
    routeId,         \* DatasetDetail: the id of useParams()
    dataset,         \* DatasetDetail: state dataset
    geojsonData,     \* DatasetDetail: state geojsonData
    loading,         \* DatasetDetail: state loading
    error,           \* DatasetDetail: state error
    runs,            \* DatasetDetail: the runs of fetchData, with their requests
    effectDue,       \* DatasetDetail: the data-loading effect is to run
    renderDue,       \* DatasetDetail: a state update awaits its re-render
    navigations,     \* DatasetDetail: number of changes of the route id
    lastConfirm,     \* the answer to the window.confirm dialog shown last
    navigatedTo,     \* the path navigate() was called with last
    currentPage,     \* DatasetList: state currentPage
    total,           \* DatasetList: state total
    datasetsShown,   \* DatasetList: state datasets
    listLoading,     \* DatasetList: state loading
    listError,       \* DatasetList: state error
    listRequests,    \* DatasetList: getDatasets requests in flight
    deleteRequests,  \* the page's deleteDataset requests in flight
    shownSkip,       \* DatasetList: skip of the request whose response is shown
    fileState,       \* Upload: state file
    uploading,       \* Upload: state uploading
    uploadProgress,  \* Upload: state uploadProgress
    uploadResult,    \* Upload: state uploadResult
    uploadError,     \* Upload: state error
    uploadRequests,  \* Upload: uploadGeoJSON requests in flight
    timers,          \* Upload: dataset ids of the pending setTimeout callbacks
    lastPrompt,      \* Upload: the prompt a setTimeout callback showed last
    strictMode,      \* Layout: development build, StrictMode re-runs mount effects
    prefersDark,     \* Layout: matchMedia('(prefers-color-scheme: dark)').matches
    storedTheme,     \* Layout: localStorage item 'theme'
    dataTheme,       \* Layout: attribute data-theme of the document element
    darkMode,        \* Layout: state darkMode
    effects,         \* Layout: effect runs that are due, in order
    updates,         \* Layout: the queued setDarkMode calls
    savedTheme,      \* Layout: localStorage item 'theme' when the page was loaded
    toggled,         \* Layout: toggleDarkMode was called since the page was loaded
    reloads          \* Layout: number of page reloads

\* The state of the server.
serverVars == <<datasets, features, nextDatasetId, nextFeatureId, pc, req, tx,
                aborted, started, mode, lastOp>>

\* The state of the DatasetDetail page.
pageVars == <<version, routeId, dataset, geojsonData, loading, error, runs,
              effectDue, renderDue, navigations>>

\* The dialogs and the router.
uiVars == <<lastConfirm, navigatedTo, deleteRequests>>

\* The state of the DatasetList page.
listVars == <<currentPage, total, datasetsShown, listLoading, listError,
              listRequests, shownSkip>>

\* The state of the Upload page.
uploadVars == <<fileState, uploading, uploadProgress, uploadResult, uploadError,
                uploadRequests, timers, lastPrompt>>

\* The state of Layout and of the theme.
layoutVars == <<strictMode, prefersDark, storedTheme, dataTheme, darkMode,
                effects, updates, savedTheme, toggled, reloads>>

\* The state of the client.
clientVars == <<lastRead, pageVars, uiVars, listVars, uploadVars, layoutVars>>

\* What the steps of one part of the client leave unchanged.
offReadVars == <<pageVars, uiVars, listVars, uploadVars, layoutVars>>

offDetailVars == <<lastRead, listVars, uploadVars, layoutVars>>

offListVars == <<lastRead, pageVars, uploadVars, layoutVars>>

offUploadVars == <<lastRead, pageVars, listVars, deleteRequests, layoutVars>>

offLayoutVars == <<lastRead, pageVars, uiVars, listVars, uploadVars>>

vars == <<serverVars, clientVars>>

storeVars == <<datasets, features>>

\* ------------------------------------------------------------------ bounds
MaxIngest == 3       \* upload requests received in one behaviour of Spec
MaxValidated == 1    \* upload requests in one behaviour of SpecValidate
MaxFeatures == 3     \* features in an uploaded document
MaxRead == 2         \* upload requests in one behaviour of SpecRead
MaxRuns == 2         \* runs of the data-loading effect of DatasetDetail
MaxNavigations == 1  \* changes of the route id of DatasetDetail
MaxDeletes == 2      \* delete requests a page sends in one behaviour
MaxUploads == 2      \* upload requests the Upload page sends in one behaviour
MaxReloads == 2      \* page reloads in one behaviour

\* ------------------------------------------------------- program constants
MaxFileSize == 10485760                 \* 10 * 1024 * 1024
NonFinite == 99                         \* stands for a NaN / Infinity number
MaxLimit == 1000                        \* the most rows a listing returns
DefaultSkip == 0                        \* getDatasets(skip = 0, ...)
DefaultLimit == 100                     \* getDatasets(..., limit = 100)
PageSize == 100                         \* fetchDatasets(currentPage * 100, 100)

Workers == {"w1", "w2"}

Null == <<>>

\* ---------------------------------------------------------------- helpers
Last(s) == s[Len(s)]

Min(S) == CHOOSE x \in S : \A y \in S : x <= y

Max(S) == CHOOSE x \in S : \A y \in S : x >= y

Range(s) == {s[i] : i \in 1..Len(s)}

RECURSIVE Flatten(_)
Flatten(ss) == IF ss = <<>> THEN <<>> ELSE Head(ss) \o Flatten(Tail(ss))

\* -------------------------------------------------------------- file names
\* A file name is the sequence of its segments between dots:
\* "a.GeoJSON" is <<"a", "GeoJSON">>, "json" is <<"json">>.
toLowerCase(s) ==
    CASE s = "GeoJSON" -> "geojson"
      [] s = "JSON"    -> "json"
      [] s = "TXT"     -> "txt"
      [] OTHER         -> s

allowedExtensions == {"geojson", "json"}

\* Step 1 of the pipeline: the name ends in ".geojson" or ".json",
\* compared case-insensitively.
HasRecognizedExtension(name) ==
    /\ Len(name) >= 2
    /\ toLowerCase(Last(name)) \in allowedExtensions

\* Variant: the size is checked before the extension.
handleFileChangeError_SizeFirst(file) ==
    IF file.size > MaxFileSize
    THEN "File too large"
    ELSE IF toLowerCase(Last(file.name)) \notin allowedExtensions
         THEN "Invalid file type"
         ELSE "none"

\* Variant: a file of exactly the maximum size is rejected.
handleFileChangeError_SizeInclusive(file) ==
    IF toLowerCase(Last(file.name)) \notin allowedExtensions
    THEN "Invalid file type"
    ELSE IF file.size >= MaxFileSize
         THEN "File too large"
         ELSE "none"

\* Upload.js handleFileChange: the message of the error it sets for the
\* selected file, or "none" when it accepts the file.
handleFileChangeError(file) ==
    LET fileExtension == toLowerCase(Last(file.name))
    IN  IF fileExtension \notin allowedExtensions
        THEN "Invalid file type"
        ELSE IF file.size > MaxFileSize
             THEN "File too large"
             ELSE "none"

\* ------------------------------------------------------ Geometry Validator
\* A geometry is [type, depth, coordinates, geometries]: depth is the
\* nesting depth of the coordinate payload (1: one position, 2: a sequence
\* of positions, 3: a sequence of sequences of positions, 4: one level
\* more), coordinates lists the payload as polygons of rings of positions
\* and geometries the members of a GeometryCollection.
GeometryTypes == {"Point", "LineString", "Polygon", "MultiPoint",
                  "MultiLineString", "MultiPolygon", "GeometryCollection"}

ExpectedDepth(type) ==
    CASE type = "Point"              -> 1
      [] type = "MultiPoint"         -> 2
      [] type = "LineString"         -> 2
      [] type = "Polygon"            -> 3
      [] type = "MultiLineString"    -> 3
      [] type = "MultiPolygon"       -> 4
      [] type = "GeometryCollection" -> 0

Rings(g) == Flatten(g.coordinates)

Positions(g) == Flatten(Rings(g))

HasRings(type) == type \in {"Polygon", "MultiPolygon"}

ArityOk(g) ==
    /\ g.depth = ExpectedDepth(g.type)
    /\ \A p \in Range(Positions(g)) : Len(p) \in {2, 3}
    /\ g.type = "Point" => Len(Positions(g)) = 1
    /\ g.type \in {"LineString", "MultiPoint", "Polygon", "MultiLineString"}
          => Len(g.coordinates) = 1
    /\ g.type \in {"LineString", "MultiPoint"} => Len(Rings(g)) = 1
    /\ HasRings(g.type) => \A r \in Range(Rings(g)) : Len(r) >= 4

\* Variant: ring closure is not checked.
RingsClosed_Unchecked(g) == TRUE

RingsClosed(g) ==
    HasRings(g.type) => \A r \in Range(Rings(g)) : r[1] = Last(r)

AllFinite(g) ==
    \A p \in Range(Positions(g)) : \A i \in 1..Len(p) : p[i] # NonFinite

RECURSIVE ValidateGeometry(_)
RECURSIVE FirstGeometryError(_)

\* The first error among the members of a GeometryCollection, or "ok".
FirstGeometryError(gs) ==
    IF gs = <<>> THEN "ok"
    ELSE LET e == ValidateGeometry(Head(gs))
         IN  IF e # "ok" THEN e ELSE FirstGeometryError(Tail(gs))

\* "ok" or the kind of the GeometryError.
ValidateGeometry(g) ==
    IF g.type \notin GeometryTypes THEN "MalformedType"
    ELSE IF g.type = "GeometryCollection" THEN FirstGeometryError(g.geometries)
    ELSE IF ~ArityOk(g) THEN "ArityMismatch"
    ELSE IF ~RingsClosed(g) THEN "UnclosedRing"
    ELSE IF ~AllFinite(g) THEN "NonFiniteCoordinate"
    ELSE "ok"

\* ------------------------------------------- FeatureCollection Validator
\* A feature of a decoded document is [type, geometry, properties];
\* properties is [present, isObject, entries], entries being the set of
\* <<key, value>> pairs of the JSON object.
NoProperties == [present |-> FALSE, isObject |-> FALSE, entries |-> {}]

PropertiesOk(p) == ~p.present \/ p.isObject

\* "ok" or the cause that makes feature f the offending one.
FeatureError(f) ==
    IF f.type # "Feature" THEN "NotAFeature"
    ELSE IF ValidateGeometry(f.geometry) # "ok"
         THEN ValidateGeometry(f.geometry)
    ELSE IF ~PropertiesOk(f.properties) THEN "InvalidProperties"
    ELSE "ok"

\* Absent properties are treated as an empty mapping.
ValidatedFeature(f) ==
    [geometry   |-> f.geometry,
     properties |-> IF f.properties.present THEN f.properties.entries ELSE {}]

ValidationOk(fs) ==
    [ok |-> TRUE, features |-> fs, index |-> -1, cause |-> "ok"]

ValidationError(i, cause) ==
    [ok |-> FALSE, features |-> <<>>, index |-> i, cause |-> cause]

\* Variant: an offending feature is skipped and the rest is kept.
RECURSIVE ValidateFrom_SkipsInvalid(_, _, _)
ValidateFrom_SkipsInvalid(fs, i, acc) ==
    IF i >= Len(fs) THEN ValidationOk(acc)
    ELSE IF FeatureError(fs[i + 1]) # "ok"
         THEN ValidateFrom_SkipsInvalid(fs, i + 1, acc)
         ELSE ValidateFrom_SkipsInvalid(fs, i + 1,
                  Append(acc, ValidatedFeature(fs[i + 1])))

\* Scans fs[i+1..] in input order (i is the 0-based index of the next
\* feature); acc holds the features validated so far.
RECURSIVE ValidateFrom(_, _, _)
ValidateFrom(fs, i, acc) ==
    IF i >= Len(fs) THEN ValidationOk(acc)
    ELSE LET e == FeatureError(fs[i + 1])
         IN  IF e # "ok"
             THEN ValidationError(i, e)
             ELSE ValidateFrom(fs, i + 1,
                               Append(acc, ValidatedFeature(fs[i + 1])))

\* A decoded document is [type, hasFeatures, features]; hasFeatures says
\* that the member "features" is present and is an array.
Validate(doc) ==
    IF doc.type # "FeatureCollection"
    THEN ValidationError(-1, "NotAFeatureCollection")
    ELSE IF ~doc.hasFeatures
    THEN ValidationError(-1, "MissingFeatures")
    ELSE ValidateFrom(doc.features, 0, <<>>)

\* ------------------------------------------------------- sample documents
Geometry(type, depth, coordinates) ==
    [type |-> type, depth |-> depth, coordinates |-> coordinates,
     geometries |-> <<>>]

Feature(geometry, properties) ==
    [type |-> "Feature", geometry |-> geometry, properties |-> properties]

PointGeom == Geometry("Point", 1, << << << <<1, 2>> >> >> >>)

ClosedRing == << <<0, 0>>, <<4, 0>>, <<4, 3>>, <<0, 0>> >>

UnclosedRing == << <<0, 0>>, <<4, 0>>, <<4, 3>>, <<0, 3>> >>

\* closed, but of 3 positions only
ShortRing == << <<0, 0>>, <<4, 0>>, <<0, 0>> >>

PolygonGeom == Geometry("Polygon", 3, << <<ClosedRing>> >>)

PointFeature ==
    Feature(PointGeom,
            [present |-> TRUE, isObject |-> TRUE,
             entries |-> {<<"name", "Sample Point">>}])

PolygonFeature == Feature(PolygonGeom, NoProperties)

\* features[i].geometry.type misspelled
TypoFeature == Feature(Geometry("Ploygon", 3, << <<ClosedRing>> >>), NoProperties)

UnclosedFeature ==
    Feature(Geometry("Polygon", 3, << <<ClosedRing, UnclosedRing>> >>),
            NoProperties)

ShortRingFeature ==
    Feature(Geometry("Polygon", 3, << <<ShortRing>> >>), NoProperties)

NonFiniteFeature ==
    Feature(Geometry("Point", 1, << << << <<NonFinite, 2>> >> >> >>),
            NoProperties)

CollectionFeature ==
    Feature([type |-> "GeometryCollection", depth |-> 0, coordinates |-> <<>>,
             geometries |-> <<PointGeom,
                              Geometry("Polygon", 3, << <<UnclosedRing>> >>)>>],
            NoProperties)

\* a valid geometry that holds no position
EmptyCollectionFeature ==
    Feature([type |-> "GeometryCollection", depth |-> 0, coordinates |-> <<>>,
             geometries |-> <<>>], NoProperties)

BadPropertiesFeature ==
    Feature(PointGeom, [present |-> TRUE, isObject |-> FALSE, entries |-> {}])

FeaturePool == {PointFeature, PolygonFeature, TypoFeature, UnclosedFeature}

SeqsUpTo(S, n) == UNION {[1..k -> S] : k \in 0..n}

Document(fs) ==
    [type |-> "FeatureCollection", hasFeatures |-> TRUE, features |-> fs]

EmptyDoc == Document(<<>>)

Documents ==
    {Document(fs) : fs \in SeqsUpTo(FeaturePool, MaxFeatures)}
    \cup {[type |-> "Feature", hasFeatures |-> FALSE, features |-> <<>>],
          [type |-> "FeatureCollection", hasFeatures |-> FALSE,
           features |-> <<>>],
          Document(<<ShortRingFeature>>),
          Document(<<NonFiniteFeature, UnclosedFeature>>),
          Document(<<PointFeature, CollectionFeature>>),
          Document(<<BadPropertiesFeature>>),
          Document(<<EmptyCollectionFeature>>)}

\* An uploaded file: its name, its byte length, and its bytes as either
\* malformed JSON text (parses = FALSE) or the document they decode to.
File(name, size, parses, doc) ==
    [name |-> name, size |-> size, parses |-> parses, doc |-> doc]

\* The uploads of Spec: few documents, names that collide, and every
\* combination of failing steps the pipeline has to order.
Files ==
    {File(<<"a", "geojson">>, MaxFileSize, TRUE,
          Document(<<PointFeature, PolygonFeature>>)),
     File(<<"a", "geojson">>, MaxFileSize, TRUE, EmptyDoc),
     File(<<"b", "JSON">>, MaxFileSize, TRUE, Document(<<PolygonFeature>>)),
     File(<<"c", "txt">>, MaxFileSize + 1, TRUE, EmptyDoc),
     File(<<"json">>, MaxFileSize, TRUE, EmptyDoc),
     File(<<"a", "geojson">>, MaxFileSize + 1, FALSE, EmptyDoc),
     File(<<"a", "geojson">>, MaxFileSize, FALSE, EmptyDoc),
     File(<<"a", "geojson">>, MaxFileSize, TRUE,
          Document(<<PointFeature, PolygonFeature, TypoFeature>>)),
     File(<<"b", "JSON">>, MaxFileSize, TRUE,
          Document(<<UnclosedFeature, TypoFeature>>))}

\* The uploads of SpecValidate: every document, under one name.
ValidatedFiles ==
    {File(<<"a", "geojson">>, MaxFileSize, TRUE, d) : d \in Documents}

\* The uploads of SpecRead.
ReadFiles ==
    {File(<<"a", "geojson">>, MaxFileSize, TRUE,
          Document(<<PointFeature, PolygonFeature>>)),
     File(<<"b", "JSON">>, MaxFileSize, TRUE, Document(<<PolygonFeature>>)),
     File(<<"a", "geojson">>, MaxFileSize, TRUE, EmptyDoc)}

FilesOf(m) ==
    CASE m = "store" -> Files
      [] m = "read" -> ReadFiles
      [] OTHER -> ValidatedFiles

IngestLimit(m) ==
    CASE m = "store" -> MaxIngest
      [] m = "read" -> MaxRead
      [] OTHER -> MaxValidated

HandlersOf(m) == IF m = "store" THEN Workers ELSE {"w1"}

NoFile == File(<<>>, 0, FALSE, EmptyDoc)

\* ----------------------------------------------------------- Dataset Store
\* NOW(), the default of datasets.uploaded_at: the time of the store, which
\* every inserted row advances.
NOW == (nextDatasetId - 1) + (nextFeatureId - 1)

\* Row of table datasets.
DatasetRow(id, name, n, size) ==
    [id |-> id, name |-> name,
     description |-> <<"Uploaded GeoJSON file with", n, "features">>,
     uploaded_at |-> NOW,
     feature_count |-> 0, bounds |-> Null, file_size_bytes |-> size]

\* Row of table features.
FeatureRow(id, datasetId, vf) ==
    [id |-> id, dataset_id |-> datasetId, geometry |-> vf.geometry,
     properties |-> vf.properties]

\* Variant: the table has no uniqueness constraint.
UniqueViolation_Unconstrained(rows, name) == FALSE

\* CONSTRAINT unique_dataset_name UNIQUE(name): inserting a row named name
\* into rows violates the constraint.
UniqueViolation(rows, name) == \E d \in rows : d.name = name

\* Variant: the delete is not restricted to the rows of the dataset.
OnDeleteCascade_AllRows(rows, id) == {}

\* Variant: the foreign key does not cascade.
OnDeleteCascade_NoCascade(rows, id) == rows

\* ON DELETE CASCADE of fk_dataset: the feature rows left when the dataset
\* id is deleted.
OnDeleteCascade(rows, id) == {f \in rows : f.dataset_id # id}

OwnedFeatures(rows, id) == {f \in rows : f.dataset_id = id}

RECURSIVE GeometryPositions(_)
RECURSIVE CollectionPositions(_)
CollectionPositions(gs) ==
    IF gs = <<>> THEN {}
    ELSE GeometryPositions(Head(gs)) \cup CollectionPositions(Tail(gs))

GeometryPositions(g) ==
    Range(Positions(g)) \cup CollectionPositions(g.geometries)

\* The envelope of no position at all: an empty box, which is not null.
EmptyEnvelope == <<1, 1, 0, 0>>

\* The envelope <<minx, miny, maxx, maxy>> of the positions ps.
Envelope(ps) ==
    IF ps = {} THEN EmptyEnvelope
    ELSE << Min({p[1] : p \in ps}), Min({p[2] : p \in ps}),
            Max({p[1] : p \in ps}), Max({p[2] : p \in ps}) >>

\* Variant: the bounds are null whenever the geometries hold no position.
computeBounds_NullWithoutPositions(fs) ==
    LET ps == UNION {GeometryPositions(f.geometry) : f \in fs}
    IN  IF ps = {} THEN Null ELSE Envelope(ps)

\* The envelope of the union of the geometries of the feature rows fs;
\* null when there is no feature.
computeBounds(fs) ==
    IF fs = {} THEN Null
    ELSE Envelope(UNION {GeometryPositions(f.geometry) : f \in fs})

NotFound == [kind |-> "NotFound"]

getDataset(id) ==
    IF \E d \in datasets : d.id = id
    THEN [kind |-> "ok", dataset |-> CHOOSE d \in datasets : d.id = id]
    ELSE NotFound

\* The features of a dataset in the order of their ids.
RECURSIVE SortById(_)
SortById(fs) ==
    IF fs = {} THEN <<>>
    ELSE LET f == CHOOSE x \in fs : \A y \in fs : x.id <= y.id
         IN  <<f>> \o SortById(fs \ {f})

exportGeoJSON(id) ==
    IF \E d \in datasets : d.id = id
    THEN [kind |-> "ok", type |-> "FeatureCollection",
          features |-> LET rows == SortById(OwnedFeatures(features, id))
                       IN  [i \in 1..Len(rows) |->
                              [type |-> "Feature", id |-> rows[i].id,
                               geometry |-> rows[i].geometry,
                               properties |-> rows[i].properties]]]
    ELSE NotFound

\* The ids of the datasets a listing returns.
listedIds == {d.id : d \in datasets}

\* ORDER BY uploaded_at DESC.
\* The rows uploaded from lo to hi, the newest first.
RECURSIVE NewestFirst(_, _, _)
NewestFirst(rows, lo, hi) ==
    IF rows = {} THEN <<>>
    ELSE IF lo >= hi
         THEN LET d == CHOOSE e \in rows : TRUE
              IN  <<d>> \o NewestFirst(rows \ {d}, lo, hi)
         ELSE LET mid == (lo + hi) \div 2
              IN  NewestFirst({d \in rows : d.uploaded_at > mid}, mid + 1, hi)
                  \o NewestFirst({d \in rows : d.uploaded_at <= mid}, lo, mid)

SortByUploadedAtDesc(rows) ==
    IF rows = {} THEN <<>>
    ELSE NewestFirst(rows, Min({d.uploaded_at : d \in rows}),
                     Max({d.uploaded_at : d \in rows}))

\* OFFSET skip LIMIT n of the rows s.
Page(s, skip, n) == SubSeq(s, skip + 1, Min({Len(s), skip + n}))

\* listDatasets(skip, limit): limit is clamped to MaxLimit.
listDatasets(skip, limit) ==
    [datasets |-> Page(SortByUploadedAtDesc(datasets), skip,
                       Min({limit, MaxLimit})),
     total |-> Cardinality(datasets),
     skip |-> skip,
     limit |-> Min({limit, MaxLimit})]

\* ------------------------------------------------------ Ingestion Pipeline
Result(kind, step, index, cause, storeError, datasetId, n) ==
    [kind |-> kind, step |-> step, index |-> index, cause |-> cause,
     storeError |-> storeError, datasetId |-> datasetId, featureCount |-> n]

Failure(kind, step) == Result(kind, step, -1, "none", "none", 0, 0)

\* Steps 1 to 4: "ok" or the failure of the first step that rejects file.
CheckFile(file) ==
    IF ~HasRecognizedExtension(file.name) THEN Failure("UnsupportedFileType", 1)
    ELSE IF file.size > MaxFileSize THEN Failure("PayloadTooLarge", 2)
    ELSE IF ~file.parses THEN Failure("MalformedDocument", 3)
    ELSE LET v == Validate(file.doc)
         IN  IF ~v.ok
             THEN Result("InvalidGeoJSON", 4, v.index, v.cause, "none", 0, 0)
             ELSE Failure("ok", 0)

\* The dataset name derived from the file name.
DeriveName(fileName) == fileName

\* Variant: the pre-check is skipped.
NameExists_Unchecked(name) == FALSE

\* Step 5: a Dataset with that name already exists.
NameExists(name) == \E d \in datasets : d.name = name

\* The error kind the pipeline reports for an error raised by the store.
TranslateStoreError(e) ==
    IF e = "UniqueViolation" THEN "DuplicateName" ELSE "StoreFailure"

NoReq == [name |-> <<>>, size |-> 0, features |-> <<>>, file |-> NoFile]

NoTx == [dataset |-> {}, features |-> {}]

Op(op, w, file, id, result) ==
    [op |-> op, w |-> w, file |-> file, id |-> id, result |-> result]

\* No read has been made.
NoRead == [op |-> "none", id |-> 0, skip |-> 0, limit |-> 0,
           result |-> [thrown |-> "none"]]

\* The value of the state error when it is null.
NoError == "none"

\* No DatasetDetail page is mounted.
PageUnmounted ==
    /\ version = "none"
    /\ routeId = 0
    /\ dataset = Null
    /\ geojsonData = Null
    /\ loading = TRUE
    /\ error = NoError
    /\ runs = <<>>
    /\ effectDue = FALSE
    /\ renderDue = FALSE
    /\ navigations = 0

\* No dialog has been shown, navigate() has not been called.
NoDialogs ==
    /\ lastConfirm = "none"
    /\ navigatedTo = "none"
    /\ deleteRequests = <<>>

\* No DatasetList page is mounted.
ListUnmounted ==
    /\ currentPage = 0
    /\ total = 0
    /\ datasetsShown = <<>>
    /\ listLoading = TRUE
    /\ listError = NoError
    /\ listRequests = <<>>
    /\ shownSkip = 0

\* No prompt has been shown by a setTimeout callback.
NoPrompt == [id |-> 0, current |-> TRUE]

\* The Upload page as useState initialises it, no request sent.
UploadInitial ==
    /\ fileState = NoFile
    /\ uploading = FALSE
    /\ uploadProgress = 0
    /\ uploadResult = Null
    /\ uploadError = NoError
    /\ uploadRequests = <<>>
    /\ timers = {}
    /\ lastPrompt = NoPrompt

\* No page has been loaded: the theme is not modelled.
LayoutUnloaded ==
    /\ strictMode = FALSE
    /\ prefersDark = FALSE
    /\ storedTheme = "none"
    /\ dataTheme = "none"
    /\ darkMode = FALSE
    /\ effects = <<>>
    /\ updates = <<>>
    /\ savedTheme = "none"
    /\ toggled = FALSE
    /\ reloads = 0

InitStore ==
    /\ datasets = {}
    /\ features = {}
    /\ nextDatasetId = 1
    /\ nextFeatureId = 1
    /\ pc = [w \in Workers |-> "idle"]
    /\ req = [w \in Workers |-> NoReq]
    /\ tx = [w \in Workers |-> NoTx]
    /\ aborted = {}
    /\ started = 0
    /\ lastOp = Op("none", "w1", NoFile, 0, Failure("none", 0))
    /\ lastRead = NoRead
    /\ PageUnmounted
    /\ NoDialogs
    /\ ListUnmounted
    /\ UploadInitial
    /\ LayoutUnloaded

Init == InitStore /\ mode = "store"

InitValidate == InitStore /\ mode = "validate"

InitRead == InitStore /\ mode = "read"

\* Variant: the rollback is missing, the rows written so far stay.
Rollback_Missing(t) == t

\* The rows of transaction t that stay in the tables after its rollback.
Rollback(t) == NoTx

\* Variant: the bulk insert loses the last feature.
BulkRows_DropsLast(first, datasetId, vfs) ==
    {FeatureRow(first + i - 1, datasetId, vfs[i]) : i \in 1..(Len(vfs) - 1)}

\* The rows step 6b inserts for the validated features vfs, in input order,
\* with ids taken from the sequence starting at first.
BulkRows(first, datasetId, vfs) ==
    {FeatureRow(first + i - 1, datasetId, vfs[i]) : i \in 1..Len(vfs)}

\* Variant: feature_count keeps its default.
RecountFeatures_Default(rows) == 0

\* Step 6c: the feature_count of a Dataset owning rows.
RecountFeatures(rows) == Cardinality(rows)

\* Handler w gives up: its transaction is rolled back and the failure is
\* reported.
Fail(w, result) ==
    /\ datasets' = datasets \cup Rollback(tx[w]).dataset
    /\ features' = features \cup Rollback(tx[w]).features
    /\ pc' = [pc EXCEPT ![w] = "idle"]
    /\ req' = [req EXCEPT ![w] = NoReq]
    /\ tx' = [tx EXCEPT ![w] = NoTx]
    /\ aborted' = aborted \cup {d.id : d \in tx[w].dataset}
    /\ lastOp' = Op("ingest", w, req[w].file, 0, result)

\* ingest(fileName, fileBytes), steps 1 to 4.
Receive(w, file) ==
    /\ pc[w] = "idle"
    /\ w \in HandlersOf(mode)
    /\ file \in FilesOf(mode)
    /\ started < IngestLimit(mode)
    /\ started' = started + 1
    /\ LET r == CheckFile(file)
       IN  IF r.kind # "ok"
           THEN /\ lastOp' = Op("ingest", w, file, 0, r)
                /\ UNCHANGED <<pc, req>>
           ELSE /\ pc' = [pc EXCEPT ![w] = "validated"]
                /\ req' = [req EXCEPT ![w] =
                             [name |-> DeriveName(file.name),
                              size |-> file.size,
                              features |-> Validate(file.doc).features,
                              file |-> file]]
                /\ UNCHANGED lastOp
    /\ UNCHANGED <<datasets, features, nextDatasetId, nextFeatureId, tx,
                   aborted, mode>>
    /\ UNCHANGED clientVars

\* Step 5, the uniqueness check.
CheckUnique(w) ==
    /\ pc[w] = "validated"
    /\ IF NameExists(req[w].name)
       THEN Fail(w, Failure("DuplicateName", 5))
       ELSE /\ pc' = [pc EXCEPT ![w] = "unique"]
            /\ UNCHANGED <<datasets, features, req, tx, aborted, lastOp>>
    /\ UNCHANGED <<nextDatasetId, nextFeatureId, started, mode>>
    /\ UNCHANGED clientVars

\* Step 6a: insert the Dataset row inside the transaction.  The insert
\* waits while another open transaction holds a row of the same name.
InsertDataset(w) ==
    /\ pc[w] = "unique"
    /\ ~\E v \in Workers \ {w} : UniqueViolation(tx[v].dataset, req[w].name)
    /\ nextDatasetId' = nextDatasetId + 1
    /\ IF UniqueViolation(datasets, req[w].name)
       THEN Fail(w, Result(TranslateStoreError("UniqueViolation"), 6, -1,
                           "none", "UniqueViolation", 0, 0))
       ELSE /\ tx' = [tx EXCEPT ![w].dataset =
                        {DatasetRow(nextDatasetId, req[w].name,
                                    Len(req[w].features), req[w].size)}]
            /\ pc' = [pc EXCEPT ![w] = "6a"]
            /\ UNCHANGED <<datasets, features, req, aborted, lastOp>>
    /\ UNCHANGED <<nextFeatureId, started, mode>>
    /\ UNCHANGED clientVars

\* Step 6b: bulk-insert the validated features in input order.
InsertFeatures(w) ==
    /\ pc[w] = "6a"
    /\ LET d == CHOOSE d \in tx[w].dataset : TRUE
       IN  tx' = [tx EXCEPT ![w].features =
                    BulkRows(nextFeatureId, d.id, req[w].features)]
    /\ nextFeatureId' = nextFeatureId + Len(req[w].features)
    /\ pc' = [pc EXCEPT ![w] = "6b"]
    /\ UNCHANGED <<datasets, features, nextDatasetId, req, aborted, started,
                   mode, lastOp>>
    /\ UNCHANGED clientVars

\* Step 6c: recompute feature_count and bounds and update the Dataset row.
UpdateDataset(w) ==
    /\ pc[w] = "6b"
    /\ LET d == CHOOSE d \in tx[w].dataset : TRUE
           rows == OwnedFeatures(tx[w].features, d.id)
       IN  tx' = [tx EXCEPT ![w].dataset =
                    {[d EXCEPT !.feature_count = RecountFeatures(rows),
                               !.bounds = computeBounds(rows)]}]
    /\ pc' = [pc EXCEPT ![w] = "6c"]
    /\ UNCHANGED <<datasets, features, nextDatasetId, nextFeatureId, req,
                   aborted, started, mode, lastOp>>
    /\ UNCHANGED clientVars

\* Step 6d: commit; the rows of the transaction become visible together.
Commit(w) ==
    /\ pc[w] = "6c"
    /\ datasets' = datasets \cup tx[w].dataset
    /\ features' = features \cup tx[w].features
    /\ LET d == CHOOSE d \in tx[w].dataset : TRUE
       IN  lastOp' = Op("ingest", w, req[w].file, d.id,
                        Result("ok", 0, -1, "none", "none", d.id,
                               d.feature_count))
    /\ pc' = [pc EXCEPT ![w] = "idle"]
    /\ req' = [req EXCEPT ![w] = NoReq]
    /\ tx' = [tx EXCEPT ![w] = NoTx]
    /\ UNCHANGED <<nextDatasetId, nextFeatureId, aborted, started, mode>>
    /\ UNCHANGED clientVars

\* A fault of the persistence layer during step 6: rollback, StoreFailure.
StoreFault(w) ==
    /\ pc[w] \in {"unique", "6a", "6b", "6c"}
    /\ Fail(w, Result(TranslateStoreError("Fault"), 6, -1, "none", "Fault",
                      0, 0))
    /\ UNCHANGED <<nextDatasetId, nextFeatureId, started, mode>>
    /\ UNCHANGED clientVars

\* The response of DELETE /api/v1/datasets/{dataset_id}.
DeleteResponse(id) ==
    IF \E d \in datasets : d.id = id
    THEN [ok |-> TRUE, status |-> 200, json |-> TRUE, detail |-> "",
          deleted_dataset_id |-> id]
    ELSE [ok |-> FALSE, status |-> 404, json |-> TRUE,
          detail |-> "Dataset not found", deleted_dataset_id |-> 0]

\* The message of the TypeError fetch rejects with when no response arrives;
\* such a response has status 0 here.
FailedToFetch == "Failed to fetch"

\* The message of the SyntaxError response.json() throws when the body is
\* not JSON.
SyntaxError == "Unexpected token < in JSON at position 0"

\* Variant: response.ok is not looked at.
request_IgnoresStatus(response) == "none"

\* GeoSpotAPI.request: the message of the Error it throws for response,
\* "none" when it returns the data.
request(response) ==
    IF response.status = 0 THEN FailedToFetch
    ELSE IF ~response.json THEN SyntaxError
    ELSE IF ~response.ok
         THEN IF response.detail # "" THEN response.detail
              ELSE "API error: " \o ToString(response.status)
         ELSE "none"

\* GeoSpotAPI.deleteDataset(id): the Dataset row and, by the cascade, its
\* features are deleted; the result is what the caller of the client gets.
deleteDataset(id) ==
    /\ LET response == DeleteResponse(id)
           thrown == request(response)
       IN  IF response.ok
           THEN /\ datasets' = {d \in datasets : d.id # id}
                /\ features' = OnDeleteCascade(features, id)
                /\ lastOp' = Op("delete", "w1", NoFile, id,
                                Result(IF thrown = "none" THEN "ok"
                                       ELSE thrown, 0, -1, "none", "none",
                                       response.deleted_dataset_id,
                                       Cardinality(OwnedFeatures(features, id))))
           ELSE /\ UNCHANGED <<datasets, features>>
                /\ lastOp' = Op("delete", "w1", NoFile, id,
                                Failure(IF thrown = "Dataset not found"
                                        THEN "NotFound" ELSE thrown, 0))
    /\ UNCHANGED <<nextDatasetId, nextFeatureId, pc, req, tx, aborted, started,
                   mode>>
    /\ UNCHANGED clientVars

\* The response of GET /api/v1/datasets/{dataset_id}/geojson.
GeoJSONResponse(id) ==
    LET e == exportGeoJSON(id)
    IN  IF e.kind = "ok"
        THEN [ok |-> TRUE, status |-> 200, json |-> TRUE, detail |-> "",
              body |-> e]
        ELSE [ok |-> FALSE, status |-> 404, json |-> TRUE,
              detail |-> "Dataset not found", body |-> e]

\* Variant: the body of the response is not returned.
getDatasetGeoJSON_NoBody(id) ==
    LET response == GeoJSONResponse(id)
    IN  IF ~response.ok
        THEN [thrown |-> IF response.detail # "" THEN response.detail
                         ELSE "API error: " \o ToString(response.status)]
        ELSE [thrown |-> "none",
              data |-> [kind |-> "ok", type |-> "FeatureCollection",
                        features |-> <<>>]]

\* GeoSpotAPI.getDatasetGeoJSON for response: the message of the Error
\* thrown, or "none" and the document returned.  The body is parsed after
\* response.ok is looked at.
geojsonResult(response) ==
    IF response.status = 0 THEN [thrown |-> FailedToFetch]
    ELSE IF ~response.json THEN [thrown |-> SyntaxError]
    ELSE IF ~response.ok
         THEN [thrown |-> IF response.detail # "" THEN response.detail
                          ELSE "API error: " \o ToString(response.status)]
         ELSE [thrown |-> "none", data |-> response.body]

\* GeoSpotAPI.getDatasetGeoJSON(id) answered by the store.
getDatasetGeoJSON(id) == geojsonResult(GeoJSONResponse(id))

\* What the caller of GeoSpotAPI.request gets for response.
requestResult(response) ==
    IF request(response) # "none"
    THEN [thrown |-> request(response)]
    ELSE [thrown |-> "none", data |-> response.body]

\* The response of GET /api/v1/datasets/{dataset_id}.
DatasetResponse(id) ==
    LET g == getDataset(id)
    IN  IF g.kind = "ok"
        THEN [ok |-> TRUE, status |-> 200, json |-> TRUE, detail |-> "",
              body |-> g.dataset]
        ELSE [ok |-> FALSE, status |-> 404, json |-> TRUE,
              detail |-> "Dataset not found", body |-> Null]

\* GeoSpotAPI.getDataset(datasetId) answered by the store.
GeoSpotAPI_getDataset(id) == requestResult(DatasetResponse(id))

\* The response of GET /api/v1/datasets?skip=..&limit=...
DatasetsResponse(skip, limit) ==
    [ok |-> TRUE, status |-> 200, json |-> TRUE, detail |-> "",
     body |-> listDatasets(skip, limit)]

\* Variant: the query string carries no skip.
getDatasets_DropsSkip(skip, limit) ==
    requestResult(DatasetsResponse(DefaultSkip, limit))

\* Variant: the listing continues after the page read last.
getDatasets_Cursor(skip, limit) ==
    requestResult(DatasetsResponse(
        IF lastRead.op = "getDatasets" /\ lastRead.result.thrown = "none"
        THEN skip + Len(lastRead.result.data.datasets) ELSE skip, limit))

\* GeoSpotAPI.getDatasets(skip = 0, limit = 100) answered by the store.
getDatasets(skip, limit) == requestResult(DatasetsResponse(skip, limit))

Read(op, id, skip, limit, result) ==
    [op |-> op, id |-> id, skip |-> skip, limit |-> limit, result |-> result]

\* The values of skip and limit the client lists with.
Skips == {DefaultSkip, 1}

Limits == {1, DefaultLimit, MaxLimit + 1}

\* A caller awaits GeoSpotAPI.getDataset(id).
CallGetDataset(id) ==
    /\ lastRead' = Read("getDataset", id, 0, 0, GeoSpotAPI_getDataset(id))
    /\ UNCHANGED <<serverVars, offReadVars>>

\* A caller awaits GeoSpotAPI.getDatasets(skip, limit).
CallGetDatasets(skip, limit) ==
    /\ lastRead' = Read("getDatasets", 0, skip, limit,
                        getDatasets(skip, limit))
    /\ UNCHANGED <<serverVars, offReadVars>>

\* A caller awaits GeoSpotAPI.getDatasetGeoJSON(id).
CallGetDatasetGeoJSON(id) ==
    /\ lastRead' = Read("getDatasetGeoJSON", id, 0, 0, getDatasetGeoJSON(id))
    /\ UNCHANGED <<serverVars, offReadVars>>

Next ==
    \/ \E w \in Workers, file \in Files \cup ValidatedFiles : Receive(w, file)
    \/ \E w \in Workers : CheckUnique(w)
    \/ \E w \in Workers : InsertDataset(w)
    \/ \E w \in Workers : InsertFeatures(w)
    \/ \E w \in Workers : UpdateDataset(w)
    \/ \E w \in Workers : Commit(w)
    \/ \E w \in Workers : StoreFault(w)
    \/ \E id \in 1..MaxIngest : deleteDataset(id)

Spec == Init /\ [][Next]_vars

SpecValidate == InitValidate /\ [][Next]_vars

\* The store with the reads of the client.
NextRead ==
    \/ Next
    \/ \E id \in 1..MaxRead : CallGetDataset(id)
    \/ \E skip \in Skips, limit \in Limits : CallGetDatasets(skip, limit)
    \/ \E id \in 1..MaxRead : CallGetDatasetGeoJSON(id)

SpecRead == InitRead /\ [][NextRead]_vars

\* ------------------------------------------------------ DatasetDetail page
\* The two files that define the component.
Versions == {"DatasetDetail.js", "part_000"}

\* The ids the route takes: two datasets of the store and one it lacks.
RouteIds == 1..3

\* A 500 whose JSON body has no detail.
ServerError ==
    [ok |-> FALSE, status |-> 500, json |-> TRUE, detail |-> "",
     body |-> Null]

\* A 502 of the gateway in front of the API: the body is an HTML page.
BadGateway ==
    [ok |-> FALSE, status |-> 502, json |-> FALSE, detail |-> "",
     body |-> Null]

\* No response arrives: fetch rejects.
NoResponse ==
    [ok |-> FALSE, status |-> 0, json |-> FALSE, detail |-> "",
     body |-> Null]

Faults == {ServerError, BadGateway, NoResponse}

\* A request that has not settled yet, and one settled with response.
Pending == [settled |-> FALSE, response |-> NoResponse]

Settled(response) == [settled |-> TRUE, response |-> response]

\* The store the page reads: a.geojson and b.JSON have been ingested.
DetailFeatures ==
    BulkRows(1, 1, Validate(Document(<<PointFeature, PolygonFeature>>)).features)
    \cup BulkRows(3, 2, Validate(Document(<<PolygonFeature>>)).features)

DetailDataset(id, name, at) ==
    [id |-> id, name |-> name,
     description |-> <<"Uploaded GeoJSON file with",
                       Cardinality(OwnedFeatures(DetailFeatures, id)),
                       "features">>,
     uploaded_at |-> at,
     feature_count |-> RecountFeatures(OwnedFeatures(DetailFeatures, id)),
     bounds |-> computeBounds(OwnedFeatures(DetailFeatures, id)),
     file_size_bytes |-> MaxFileSize]

DetailDatasets ==
    {DetailDataset(1, <<"a", "geojson">>, 0),
     DetailDataset(2, <<"b", "JSON">>, 3)}

\* The component has been mounted and rendered once; its effect is to run.
InitDetail ==
    /\ datasets = DetailDatasets
    /\ features = DetailFeatures
    /\ nextDatasetId = 3
    /\ nextFeatureId = 4
    /\ pc = [w \in Workers |-> "idle"]
    /\ req = [w \in Workers |-> NoReq]
    /\ tx = [w \in Workers |-> NoTx]
    /\ aborted = {}
    /\ started = 2
    /\ mode = "detail"
    /\ lastOp = Op("none", "w1", NoFile, 0, Failure("none", 0))
    /\ lastRead = NoRead
    /\ version \in Versions
    /\ routeId \in RouteIds
    /\ dataset = Null
    /\ geojsonData = Null
    /\ loading = TRUE
    /\ error = NoError
    /\ runs = <<>>
    /\ effectDue = TRUE
    /\ renderDue = FALSE
    /\ navigations = 0
    /\ NoDialogs
    /\ ListUnmounted
    /\ UploadInitial
    /\ LayoutUnloaded

\* The id the data-loading effect ran with last, 0 before its first run.
EffectId == IF runs = <<>> THEN 0 ELSE Last(runs).id

\* A dependency of the effect has changed since it ran last: id in
\* DatasetDetail.js; id, fetchDataset and fetchGeoJSON in part_000, where
\* the two functions are created anew by every render.
DepsChanged ==
    IF version = "part_000" THEN TRUE ELSE EffectId # routeId

\* What the component renders.
View ==
    IF version = "part_000"
    THEN IF loading THEN "LoadingSpinner"
         ELSE IF error # NoError THEN "ErrorMessage" ELSE "dataset-detail"
    ELSE IF loading \/ dataset = Null \/ geojsonData = Null
         THEN "LoadingSpinner"
         ELSE IF error # NoError THEN "ErrorMessage" ELSE "dataset-detail"

\* The effect runs fetchData: setLoading(true), setError(null), and the two
\* requests of fetchDataset and fetchGeoJSON are sent.
fetchData ==
    /\ navigatedTo = "none"
    /\ effectDue
    /\ Len(runs) < MaxRuns
    /\ runs' = Append(runs, [id |-> routeId, dataset |-> Pending,
                              geojson |-> Pending, finished |-> FALSE])
    /\ loading' = TRUE
    /\ error' = NoError
    /\ effectDue' = FALSE
    /\ renderDue' = (renderDue \/ ~loading \/ error # NoError)
    /\ UNCHANGED <<version, routeId, dataset, geojsonData, navigations>>
    /\ UNCHANGED <<serverVars, offDetailVars, uiVars>>

\* fetchDataset of run i resumes with the response of its request.
fetchDataset(i, response) ==
    /\ navigatedTo = "none"
    /\ ~runs[i].dataset.settled
    /\ runs' = [runs EXCEPT ![i].dataset = Settled(response)]
    /\ LET r == requestResult(response)
       IN  IF r.thrown = "none"
           THEN /\ dataset' = r.data
                /\ renderDue' = TRUE
                /\ UNCHANGED error
           ELSE /\ error' = r.thrown
                /\ renderDue' = (renderDue \/ error # r.thrown)
                /\ UNCHANGED dataset
    /\ UNCHANGED <<version, routeId, geojsonData, loading, effectDue,
                   navigations>>
    /\ UNCHANGED <<serverVars, offDetailVars, uiVars>>

\* fetchGeoJSON of run i resumes with the response of its request.
fetchGeoJSON(i, response) ==
    /\ navigatedTo = "none"
    /\ ~runs[i].geojson.settled
    /\ runs' = [runs EXCEPT ![i].geojson = Settled(response)]
    /\ LET r == geojsonResult(response)
       IN  IF r.thrown = "none"
           THEN /\ geojsonData' = r.data
                /\ renderDue' = TRUE
                /\ UNCHANGED error
           ELSE /\ error' = r.thrown
                /\ renderDue' = (renderDue \/ error # r.thrown)
                /\ UNCHANGED geojsonData
    /\ UNCHANGED <<version, routeId, dataset, loading, effectDue,
                   navigations>>
    /\ UNCHANGED <<serverVars, offDetailVars, uiVars>>

\* Promise.all of run i has settled: finally setLoading(false).
fetchDataFinally(i) ==
    /\ navigatedTo = "none"
    /\ runs[i].dataset.settled
    /\ runs[i].geojson.settled
    /\ ~runs[i].finished
    /\ runs' = [runs EXCEPT ![i].finished = TRUE]
    /\ loading' = FALSE
    /\ renderDue' = (renderDue \/ loading)
    /\ UNCHANGED <<version, routeId, dataset, geojsonData, error, effectDue,
                   navigations>>
    /\ UNCHANGED <<serverVars, offDetailVars, uiVars>>

\* The component re-renders; the effect is to run when a dependency changed.
render ==
    /\ navigatedTo = "none"
    /\ renderDue
    /\ renderDue' = FALSE
    /\ effectDue' = (effectDue \/ DepsChanged)
    /\ UNCHANGED <<version, routeId, dataset, geojsonData, loading, error,
                   runs, navigations>>
    /\ UNCHANGED <<serverVars, offDetailVars, uiVars>>

\* The route changes to /datasets/id; the component stays mounted.
changeRoute(id) ==
    /\ navigatedTo = "none"
    /\ navigations < MaxNavigations
    /\ id # routeId
    /\ routeId' = id
    /\ navigations' = navigations + 1
    /\ renderDue' = TRUE
    /\ UNCHANGED <<version, dataset, geojsonData, loading, error, runs,
                   effectDue>>
    /\ UNCHANGED <<serverVars, offDetailVars, uiVars>>

\* The datasets deleted so far.
Deleted == (nextDatasetId - 1) - Cardinality(datasets)

Answers == {"accepted", "declined"}

\* DeleteResponse applied to the store: the row and, by the cascade, its
\* features are gone when the response is ok.
StoreAfter(response, id) ==
    IF response.ok
    THEN /\ datasets' = {d \in datasets : d.id # id}
         /\ features' = OnDeleteCascade(features, id)
    ELSE UNCHANGED <<datasets, features>>

\* A deleteDataset request of a page, with the currentPage the handler of
\* DatasetList closed over.
DeleteRequest(id, page) == [id |-> id, page |-> page]

\* s without its i-th element.
Without(s, i) == SubSeq(s, 1, i - 1) \o SubSeq(s, i + 1, Len(s))

\* Delete Dataset is pressed: the dialog, and the request when the dialog is
\* confirmed.
detailDeleteClicked(answer) ==
    /\ navigatedTo = "none"
    /\ View = "dataset-detail"
    /\ ~renderDue
    /\ lastConfirm' = answer
    /\ IF answer = "accepted"
       THEN /\ Deleted + Len(deleteRequests) < MaxDeletes
            /\ \A i \in 1..Len(deleteRequests) : deleteRequests[i].id # routeId
            /\ deleteRequests' = Append(deleteRequests, DeleteRequest(routeId, 0))
       ELSE UNCHANGED deleteRequests
    /\ UNCHANGED <<navigatedTo, pageVars>>
    /\ UNCHANGED <<serverVars, offDetailVars>>

\* Variant: the page is left whatever the request's outcome.
detailDeleteOutcome_Leaves(thrown) == "none"

\* What the handler of Delete Dataset finds when its await returns.
detailDeleteOutcome(thrown) == thrown

\* The handler of Delete Dataset resumes with the response of its i-th
\* pending request: navigate('/datasets'), or setError.
detailDeleteSettled(i, response) ==
    /\ navigatedTo = "none"
    /\ deleteRequests' = Without(deleteRequests, i)
    /\ StoreAfter(response, deleteRequests[i].id)
    /\ IF detailDeleteOutcome(request(response)) = "none"
       THEN /\ navigatedTo' = "/datasets"
            /\ UNCHANGED <<error, renderDue>>
       ELSE /\ error' = request(response)
            /\ renderDue' = (renderDue \/ error # request(response))
            /\ UNCHANGED navigatedTo
    /\ UNCHANGED <<version, routeId, dataset, geojsonData, loading, runs,
                   effectDue, navigations, lastConfirm>>
    /\ UNCHANGED <<nextDatasetId, nextFeatureId, pc, req, tx, aborted, started,
                   mode, lastOp>>
    /\ UNCHANGED offDetailVars

NextDetail ==
    \/ \E answer \in Answers : detailDeleteClicked(answer)
    \/ \E i \in 1..Len(deleteRequests) :
          \E response \in {DeleteResponse(deleteRequests[i].id)} \cup Faults :
             detailDeleteSettled(i, response)
    \/ fetchData
    \/ \E i \in 1..Len(runs) :
          \E response \in {DatasetResponse(runs[i].id)} \cup Faults :
             fetchDataset(i, response)
    \/ \E i \in 1..Len(runs) :
          \E response \in {GeoJSONResponse(runs[i].id)} \cup Faults :
             fetchGeoJSON(i, response)
    \/ \E i \in 1..Len(runs) : fetchDataFinally(i)
    \/ render
    \/ \E id \in RouteIds : changeRoute(id)

SpecDetail == InitDetail /\ [][NextDetail]_vars

\* ---------------------------------------------------------------------
\* The DatasetList page (interactiveComponents.js lines 204-344).

\* The store the list page reads: one dataset more than a page holds, the
\* dataset with the greater id uploaded later.
ListDataset(i) ==
    [id |-> i, name |-> <<ToString(i), "geojson">>,
     description |-> <<"Uploaded GeoJSON file with", 0, "features">>,
     uploaded_at |-> i - 1,
     feature_count |-> 0,
     bounds |-> EmptyEnvelope,
     file_size_bytes |-> MaxFileSize]

ListDatasets == {ListDataset(i) : i \in 1..(PageSize + 1)}

\* A getDatasets request of the page.
ListRequest(skip) == [skip |-> skip]


\* The page has been mounted and its effect has called
\* fetchDatasets(currentPage * 100, 100) with currentPage = 0.
InitList ==
    /\ datasets = ListDatasets
    /\ features = {}
    /\ nextDatasetId = PageSize + 2
    /\ nextFeatureId = 1
    /\ pc = [w \in Workers |-> "idle"]
    /\ req = [w \in Workers |-> NoReq]
    /\ tx = [w \in Workers |-> NoTx]
    /\ aborted = {}
    /\ started = PageSize + 1
    /\ mode = "list"
    /\ lastOp = Op("none", "w1", NoFile, 0, Failure("none", 0))
    /\ lastRead = NoRead
    /\ PageUnmounted
    /\ NoDialogs
    /\ currentPage = 0
    /\ total = 0
    /\ datasetsShown = <<>>
    /\ listLoading = TRUE
    /\ listError = NoError
    /\ listRequests = <<ListRequest(0)>>
    /\ shownSkip = 0
    /\ UploadInitial
    /\ LayoutUnloaded

\* What DatasetList renders.
ListView ==
    IF listLoading THEN "LoadingSpinner"
    ELSE IF listError # NoError THEN "ErrorMessage"
         ELSE IF Len(datasetsShown) = 0 THEN "empty-state" ELSE "dataset-grid"

\* Variant: the refresh after a delete is left out.
fetchDatasetsCalled_Nothing(skip) ==
    UNCHANGED <<listLoading, listError, listRequests>>

\* fetchDatasets(skip, 100) up to its await: setLoading(true), setError(null)
\* and the request is sent.
fetchDatasetsCalled(skip) ==
    /\ listLoading' = TRUE
    /\ listError' = NoError
    /\ listRequests' = Append(listRequests, ListRequest(skip))

\* fetchDatasets resumes with the response of its i-th pending request:
\* setDatasets and setTotal, or setError; finally setLoading(false).
fetchDatasets(i, response) ==
    /\ listRequests' = Without(listRequests, i)
    /\ LET r == requestResult(response)
       IN  IF r.thrown = "none"
           THEN /\ datasetsShown' = r.data.datasets
                /\ total' = r.data.total
                /\ shownSkip' = listRequests[i].skip
                /\ UNCHANGED listError
           ELSE /\ listError' = r.thrown
                /\ UNCHANGED <<datasetsShown, total, shownSkip>>
    /\ listLoading' = FALSE
    /\ UNCHANGED <<currentPage, uiVars>>
    /\ UNCHANGED <<serverVars, offListVars>>

\* The rows whose Delete button is pressed.
DeleteTargets ==
    IF Len(datasetsShown) = 0 THEN {}
    ELSE {datasetsShown[1].id, Last(datasetsShown).id}

\* DatasetList.deleteDataset(datasetId) up to its await: the dialog, and the
\* request when the dialog is confirmed.
listDeleteClicked(datasetId, answer) ==
    /\ ListView = "dataset-grid"
    /\ lastConfirm' = answer
    /\ IF answer = "accepted"
       THEN /\ Deleted + Len(deleteRequests) < MaxDeletes
            /\ \A i \in 1..Len(deleteRequests) :
                  deleteRequests[i].id # datasetId
            /\ deleteRequests' =
                  Append(deleteRequests, DeleteRequest(datasetId, currentPage))
       ELSE UNCHANGED deleteRequests
    /\ UNCHANGED <<navigatedTo, listVars>>
    /\ UNCHANGED <<serverVars, offListVars>>

\* DatasetList.deleteDataset resumes with the response of its i-th pending
\* request: the list is fetched again for the currentPage the handler closed
\* over, or setError.
listDeleteSettled(i, response) ==
    /\ deleteRequests' = Without(deleteRequests, i)
    /\ StoreAfter(response, deleteRequests[i].id)
    /\ IF request(response) = "none"
       THEN fetchDatasetsCalled(deleteRequests[i].page * PageSize)
       ELSE /\ listError' = request(response)
            /\ UNCHANGED <<listLoading, listRequests>>
    /\ UNCHANGED <<currentPage, total, datasetsShown, shownSkip>>
    /\ UNCHANGED <<lastConfirm, navigatedTo>>
    /\ UNCHANGED <<nextDatasetId, nextFeatureId, pc, req, tx, aborted, started,
                   mode, lastOp>>
    /\ UNCHANGED offListVars

\* Variant: every page number is accepted.
handlePageChangeGuard_Any(newPage) == TRUE

\* The condition of handlePageChange.
handlePageChangeGuard(newPage) == newPage >= 0 /\ newPage * PageSize < total

\* Previous or Next is pressed: handlePageChange(newPage), and after the
\* re-render the effect calls fetchDatasets(currentPage * 100, 100).
handlePageChange(newPage) ==
    /\ ListView = "dataset-grid"
    /\ \/ newPage = currentPage - 1 /\ currentPage # 0
       \/ newPage = currentPage + 1 /\ ~((currentPage + 1) * PageSize >= total)
    /\ handlePageChangeGuard(newPage)
    /\ currentPage' = newPage
    /\ fetchDatasetsCalled(newPage * PageSize)
    /\ UNCHANGED <<total, datasetsShown, shownSkip, uiVars>>
    /\ UNCHANGED <<serverVars, offListVars>>

\* Retry of the error message: fetchDatasets(currentPage * 100, 100).
onRetry ==
    /\ ListView = "ErrorMessage"
    /\ fetchDatasetsCalled(currentPage * PageSize)
    /\ UNCHANGED <<currentPage, total, datasetsShown, shownSkip, uiVars>>
    /\ UNCHANGED <<serverVars, offListVars>>

NextList ==
    \/ \E i \in 1..Len(listRequests) :
          \E response \in {DatasetsResponse(listRequests[i].skip, PageSize)}
                          \cup Faults :
             fetchDatasets(i, response)
    \/ \E datasetId \in DeleteTargets : \E answer \in Answers :
          listDeleteClicked(datasetId, answer)
    \/ \E i \in 1..Len(deleteRequests) :
          \E response \in {DeleteResponse(deleteRequests[i].id)} \cup Faults :
             listDeleteSettled(i, response)
    \/ \E newPage \in {currentPage - 1, currentPage + 1} :
          handlePageChange(newPage)
    \/ onRetry

SpecList == InitList /\ [][NextList]_vars

\* ---------------------------------------------------------------------
\* The Upload page (Upload.js).

\* The files the user selects.
UploadFiles == {f \in Files : f.doc = EmptyDoc}

\* The Upload page is mounted over an empty store.
InitUpload ==
    /\ datasets = {}
    /\ features = {}
    /\ nextDatasetId = 1
    /\ nextFeatureId = 1
    /\ pc = [w \in Workers |-> "idle"]
    /\ req = [w \in Workers |-> NoReq]
    /\ tx = [w \in Workers |-> NoTx]
    /\ aborted = {}
    /\ started = 0
    /\ mode = "upload"
    /\ lastOp = Op("none", "w1", NoFile, 0, Failure("none", 0))
    /\ lastRead = NoRead
    /\ PageUnmounted
    /\ NoDialogs
    /\ ListUnmounted
    /\ UploadInitial
    /\ LayoutUnloaded

\* Variant: the selected file is stored before it is checked.
handleFileChangeFile_Unchecked(selectedFile, current) == selectedFile

\* The file state after handleFileChange: the selected file when it passes
\* the two checks, the file held before when it does not.
handleFileChangeFile(selectedFile, current) ==
    IF handleFileChangeError(selectedFile) = "none" THEN selectedFile
    ELSE current

\* The file input changes (it is disabled while uploading): handleFileChange.
handleFileChange(selectedFile) ==
    /\ navigatedTo = "none"
    /\ ~uploading
    /\ fileState' = handleFileChangeFile(selectedFile, fileState)
    /\ uploadError' = handleFileChangeError(selectedFile)
    /\ UNCHANGED <<uploading, uploadProgress, uploadResult, uploadRequests,
                   timers, lastPrompt, lastConfirm, navigatedTo>>
    /\ UNCHANGED <<serverVars, offUploadVars>>

\* Variant: uploading is not set.
handleUploadStart_NotUploading(f) ==
    IF f = NoFile
    THEN [sends |-> <<>>, uploading |-> FALSE,
          error |-> "Please select a file first"]
    ELSE [sends |-> <<f>>, uploading |-> FALSE, error |-> NoError]

\* handleUpload up to its await: the requests it sends and the state it sets
\* when the file state is f.
handleUploadStart(f) ==
    IF f = NoFile
    THEN [sends |-> <<>>, uploading |-> FALSE,
          error |-> "Please select a file first"]
    ELSE [sends |-> <<f>>, uploading |-> TRUE, error |-> NoError]

\* Upload Dataset is pressed; the button is rendered while there is no
\* uploadResult and is disabled while !file || uploading.
handleUpload ==
    /\ navigatedTo = "none"
    /\ uploadResult = Null
    /\ ~(fileState = NoFile \/ uploading)
    /\ started < MaxUploads
    /\ LET h == handleUploadStart(fileState)
       IN  /\ uploadRequests' = uploadRequests \o h.sends
           /\ started' = started + Len(h.sends)
           /\ uploadError' = h.error
           /\ uploading' = (IF h.sends = <<>> THEN uploading ELSE h.uploading)
           /\ uploadProgress' = (IF h.sends = <<>> THEN uploadProgress ELSE 30)
    /\ UNCHANGED <<fileState, uploadResult, timers, lastPrompt, lastConfirm,
                   navigatedTo>>
    /\ UNCHANGED <<datasets, features, nextDatasetId, nextFeatureId, pc, req,
                   tx, aborted, mode, lastOp>>
    /\ UNCHANGED offUploadVars

\* The response of POST /api/v1/upload for file f.
UploadResponse(f) ==
    IF CheckFile(f).kind # "ok"
    THEN [ok |-> FALSE, status |-> 400, json |-> TRUE,
          detail |-> CheckFile(f).kind, body |-> Null]
    ELSE IF NameExists(DeriveName(f.name))
         THEN [ok |-> FALSE, status |-> 409, json |-> TRUE,
               detail |-> "DuplicateName", body |-> Null]
         ELSE [ok |-> TRUE, status |-> 200, json |-> TRUE, detail |-> "",
               body |-> [id |-> nextDatasetId, name |-> DeriveName(f.name),
                         feature_count |-> Len(f.doc.features)]]

\* GeoSpotAPI.uploadGeoJSON: what it throws or returns for response.
uploadGeoJSON(response) ==
    IF response.status = 0 THEN [thrown |-> FailedToFetch]
    ELSE IF ~response.json THEN [thrown |-> SyntaxError]
    ELSE IF ~response.ok
         THEN [thrown |-> IF response.detail # "" THEN response.detail
                          ELSE "Upload error: " \o ToString(response.status)]
         ELSE [thrown |-> "none", data |-> response.body]

\* The path of a dataset's page.
DatasetPath(id) == "/datasets/" \o ToString(id)

\* handleUpload resumes with the response of its i-th pending request:
\* setUploadResult, setUploadProgress(100) and the callback is scheduled, or
\* setError; finally setUploading(false).
handleUploadSettled(i, response) ==
    /\ uploadRequests' = Without(uploadRequests, i)
    /\ IF response.ok
       THEN /\ datasets' = datasets \cup
                   {DatasetRow(nextDatasetId, DeriveName(uploadRequests[i].name),
                               0, uploadRequests[i].size)}
            /\ nextDatasetId' = nextDatasetId + 1
       ELSE UNCHANGED <<datasets, nextDatasetId>>
    /\ LET r == uploadGeoJSON(response)
       IN  IF r.thrown = "none"
           THEN /\ uploadResult' = r.data
                /\ uploadProgress' = 100
                /\ timers' = timers \cup {r.data.id}
                /\ UNCHANGED uploadError
           ELSE /\ uploadError' = r.thrown
                /\ UNCHANGED <<uploadResult, uploadProgress, timers>>
    /\ uploading' = FALSE
    /\ UNCHANGED <<fileState, lastPrompt, lastConfirm, navigatedTo>>
    /\ UNCHANGED <<features, nextFeatureId, pc, req, tx, aborted, started, mode,
                   lastOp>>
    /\ UNCHANGED offUploadVars

\* The callback of setTimeout runs for the upload of dataset id: the prompt,
\* and navigate when it is confirmed. Nothing cancels the callback.
timerFires(id, answer) ==
    /\ timers' = timers \ {id}
    /\ lastPrompt' = [id |-> id,
                      current |-> /\ navigatedTo = "none"
                                  /\ uploadResult # Null
                                  /\ uploadResult.id = id]
    /\ lastConfirm' = answer
    /\ navigatedTo' = (IF answer = "accepted" THEN DatasetPath(id)
                       ELSE navigatedTo)
    /\ UNCHANGED <<fileState, uploading, uploadProgress, uploadResult,
                   uploadError, uploadRequests>>
    /\ UNCHANGED <<serverVars, offUploadVars>>

\* Upload Another, or Reset (disabled while uploading): resetUpload.
resetUpload ==
    /\ navigatedTo = "none"
    /\ uploadResult # Null \/ ~uploading
    /\ fileState' = NoFile
    /\ uploadResult' = Null
    /\ uploadError' = NoError
    /\ uploadProgress' = 0
    /\ UNCHANGED <<uploading, uploadRequests, timers, lastPrompt, lastConfirm,
                   navigatedTo>>
    /\ UNCHANGED <<serverVars, offUploadVars>>

\* Dismiss of the error message: setError(null).
dismissError ==
    /\ navigatedTo = "none"
    /\ uploadError # NoError
    /\ uploadError' = NoError
    /\ UNCHANGED <<fileState, uploading, uploadProgress, uploadResult,
                   uploadRequests, timers, lastPrompt, lastConfirm,
                   navigatedTo>>
    /\ UNCHANGED <<serverVars, offUploadVars>>

\* View Dataset of the success panel.
viewDataset ==
    /\ navigatedTo = "none"
    /\ uploadResult # Null
    /\ navigatedTo' = DatasetPath(uploadResult.id)
    /\ UNCHANGED <<uploadVars, lastConfirm>>
    /\ UNCHANGED <<serverVars, offUploadVars>>

NextUpload ==
    \/ \E selectedFile \in UploadFiles : handleFileChange(selectedFile)
    \/ handleUpload
    \/ \E i \in 1..Len(uploadRequests) :
          \E response \in {UploadResponse(uploadRequests[i])} \cup Faults :
             handleUploadSettled(i, response)
    \/ \E id \in timers : \E answer \in Answers : timerFires(id, answer)
    \/ resetUpload
    \/ dismissError
    \/ viewDataset

SpecUpload == InitUpload /\ [][NextUpload]_vars

\* ---------------------------------------------------------------------
\* The theme: initializeTheme and Layout (Layout.js).

Themes == {"light", "dark"}

\* initializeTheme: the theme for the saved item ("none": no item) and the
\* system preference.
initializeTheme(saved, prefers) ==
    IF saved # "none" THEN saved
    ELSE IF prefers THEN "dark" ELSE "light"

\* The theme the second effect applies for a value of darkMode.
ThemeOf(dark) == IF dark THEN "dark" ELSE "light"

\* A run of the first effect (deps []) and of the second (deps [darkMode])
\* with the darkMode of the render that created it.
RestoreEffect == [kind |-> "restore", darkMode |-> FALSE]

ApplyEffect(dark) == [kind |-> "apply", darkMode |-> dark]

\* The effect runs after the first render, darkMode being false: both
\* effects, and both once more under StrictMode in a development build.
MountEffects(strict) ==
    IF strict
    THEN <<RestoreEffect, ApplyEffect(FALSE), RestoreEffect, ApplyEffect(FALSE)>>
    ELSE <<RestoreEffect, ApplyEffect(FALSE)>>

\* The page is loaded with item saved in localStorage: initializeTheme runs,
\* then the root is rendered for the first time.
Load(saved, prefers, strict, stored, attribute, dark, due, queued) ==
    /\ stored = initializeTheme(saved, prefers)
    /\ attribute = initializeTheme(saved, prefers)
    /\ dark = FALSE
    /\ due = MountEffects(strict)
    /\ queued = <<>>

InitLayout ==
    /\ datasets = {}
    /\ features = {}
    /\ nextDatasetId = 1
    /\ nextFeatureId = 1
    /\ pc = [w \in Workers |-> "idle"]
    /\ req = [w \in Workers |-> NoReq]
    /\ tx = [w \in Workers |-> NoTx]
    /\ aborted = {}
    /\ started = 0
    /\ mode = "layout"
    /\ lastOp = Op("none", "w1", NoFile, 0, Failure("none", 0))
    /\ lastRead = NoRead
    /\ PageUnmounted
    /\ NoDialogs
    /\ ListUnmounted
    /\ UploadInitial
    /\ strictMode \in BOOLEAN
    /\ prefersDark \in BOOLEAN
    /\ savedTheme \in Themes \cup {"none"}
    /\ Load(savedTheme, prefersDark, strictMode, storedTheme, dataTheme,
            darkMode, effects, updates)
    /\ toggled = FALSE
    /\ reloads = 0

\* The effect run that is due first runs: the first effect reads the saved
\* theme or the preference and calls setDarkMode; the second sets data-theme
\* and the localStorage item from the darkMode of its render.
runEffect ==
    /\ effects # <<>>
    /\ effects' = Tail(effects)
    /\ IF Head(effects).kind = "restore"
       THEN /\ updates' = Append(updates,
                                 IF storedTheme # "none"
                                 THEN storedTheme = "dark" ELSE prefersDark)
            /\ UNCHANGED <<storedTheme, dataTheme>>
       ELSE /\ dataTheme' = ThemeOf(Head(effects).darkMode)
            /\ storedTheme' = ThemeOf(Head(effects).darkMode)
            /\ UNCHANGED updates
    /\ UNCHANGED <<strictMode, prefersDark, darkMode, savedTheme, toggled,
                   reloads>>
    /\ UNCHANGED <<serverVars, offLayoutVars>>

\* The effects have run: the queued setDarkMode calls are applied and Layout
\* renders again; the second effect is due when darkMode has changed.
rerender ==
    /\ effects = <<>>
    /\ updates # <<>>
    /\ darkMode' = Last(updates)
    /\ updates' = <<>>
    /\ effects' = (IF Last(updates) # darkMode
                   THEN <<ApplyEffect(Last(updates))>> ELSE <<>>)
    /\ UNCHANGED <<strictMode, prefersDark, storedTheme, dataTheme, savedTheme,
                   toggled, reloads>>
    /\ UNCHANGED <<serverVars, offLayoutVars>>

\* The theme button is pressed: setDarkMode(!darkMode).
toggleDarkMode ==
    /\ effects = <<>>
    /\ updates = <<>>
    /\ updates' = <<~darkMode>>
    /\ toggled' = TRUE
    /\ UNCHANGED <<strictMode, prefersDark, storedTheme, dataTheme, darkMode,
                   effects, savedTheme, reloads>>
    /\ UNCHANGED <<serverVars, offLayoutVars>>

\* The page is reloaded once the effects have run.
reload ==
    /\ effects = <<>>
    /\ updates = <<>>
    /\ reloads < MaxReloads
    /\ reloads' = reloads + 1
    /\ savedTheme' = storedTheme
    /\ toggled' = FALSE
    /\ Load(storedTheme, prefersDark, strictMode, storedTheme', dataTheme',
            darkMode', effects', updates')
    /\ UNCHANGED <<strictMode, prefersDark>>
    /\ UNCHANGED <<serverVars, offLayoutVars>>

NextLayout ==
    \/ runEffect
    \/ rerender
    \/ toggleDarkMode
    \/ reload

SpecLayout == InitLayout /\ [][NextLayout]_vars

\* The two pages that delete datasets, one of them mounted.
InitPages == InitList \/ InitDetail

NextPages ==
    \/ mode = "list" /\ NextList
    \/ mode = "detail" /\ NextDetail

SpecPages == InitPages /\ [][NextPages]_vars

\* ================================================================= claims
IngestDone == lastOp.op = "ingest"

IngestFailed == IngestDone /\ lastOp.result.kind # "ok"

IngestSucceeded == IngestDone /\ lastOp.result.kind = "ok"

RowsOf(id) ==
    {d \in datasets : d.id = id} \cup {f \in features : f.dataset_id = id}

\* C1: atomicity of ingest.  A step that ends an ingestion with a failure,
\* whatever the failing step, leaves the committed Dataset rows and Feature
\* rows as they were, and no row carrying the id allocated by a rolled back
\* transaction is ever in the tables.
C1_Atomicity ==
    /\ [](\A i \in aborted : RowsOf(i) = {})
    /\ [][IngestFailed' => UNCHANGED storeVars]_vars

\* A transaction that had inserted its Dataset row and its Feature rows
\* was rolled back.
C1_Witness ==
    /\ IngestFailed
    /\ lastOp.result.storeError = "Fault"
    /\ aborted # {}
    /\ nextFeatureId > 1

\* C2: in every state a reader can observe, each Dataset's feature_count
\* equals the number of Feature rows it owns.
C2_FeatureCount ==
    \A d \in datasets :
        d.feature_count = Cardinality(OwnedFeatures(features, d.id))

\* A reader sees a Dataset with features while another transaction holds a
\* Dataset row with feature_count = 0 and its inserted features.
C2_Witness ==
    /\ \E d \in datasets : d.feature_count > 0
    /\ \E w \in Workers :
          /\ pc[w] = "6b"
          /\ tx[w].features # {}
          /\ \E d \in tx[w].dataset : d.feature_count = 0

\* C3: a successful ingest of a valid FeatureCollection with N features
\* creates exactly one Dataset and exactly N Feature rows owned by it, and
\* the Dataset's feature_count and the summary's featureCount equal N.
C3_Created ==
    LET n  == Len(lastOp.file.doc.features)
        id == lastOp.result.datasetId
    IN  IngestSucceeded =>
          /\ Cardinality({d \in datasets : d.id = id}) = 1
          /\ \A d \in datasets : d.id = id => d.feature_count = n
          /\ Cardinality(OwnedFeatures(features, id)) = n
          /\ lastOp.result.featureCount = n

C3_Commits ==
    (IngestSucceeded' /\ lastOp' # lastOp) =>
        /\ Cardinality(datasets') = Cardinality(datasets) + 1
        /\ datasets \subseteq datasets'
        /\ features \subseteq features'
        /\ Cardinality(features') =
              Cardinality(features) + Len(lastOp'.file.doc.features)

C3_SuccessfulIngest == [](C3_Created) /\ [][C3_Commits]_vars

C3_Witness ==
    /\ IngestSucceeded
    /\ Len(lastOp.file.doc.features) = 2
    /\ Cardinality(datasets) = 2

\* C4: no two Datasets share a name, and an ingestion whose insert hits the
\* uniqueness constraint after passing the pre-check fails with
\* DuplicateName.
C4_UniqueNames ==
    /\ \A d, e \in datasets : d.name = e.name => d = e
    /\ (IngestDone /\ lastOp.result.storeError = "UniqueViolation")
          => lastOp.result.kind = "DuplicateName"

\* An ingestion passed the pre-check and lost the race at insert time.
C4_Witness ==
    /\ IngestFailed
    /\ lastOp.result.step = 6
    /\ lastOp.result.storeError = "UniqueViolation"
    /\ \E d \in datasets : d.name = DeriveName(lastOp.file.name)

\* C5: every Feature row a reader can see references a Dataset row that
\* exists.
C5_NoOrphans ==
    \A f \in features : \E d \in datasets : d.id = f.dataset_id

\* A Dataset owning features was deleted while an ingestion is in flight.
C5_Witness ==
    /\ lastOp.op = "delete"
    /\ lastOp.result.kind = "ok"
    /\ lastOp.result.featureCount > 0
    /\ features # {}

DeleteDone == lastOp.op = "delete"

\* C6: after deleteDataset(id) succeeds no Feature owned by id remains, the
\* listing excludes id, and getDataset(id) and exportGeoJSON(id) are
\* NotFound; deleteDataset of an id that does not exist returns NotFound
\* and leaves the store unchanged.
C6_Deleted ==
    (DeleteDone /\ lastOp.result.kind = "ok") =>
        /\ lastOp.result.datasetId = lastOp.id
        /\ OwnedFeatures(features, lastOp.id) = {}
        /\ lastOp.id \notin listedIds
        /\ getDataset(lastOp.id) = NotFound
        /\ exportGeoJSON(lastOp.id) = NotFound

C6_Step ==
    (DeleteDone' /\ lastOp' # lastOp) =>
        /\ lastOp'.id \in listedIds <=> lastOp'.result.kind = "ok"
        /\ lastOp'.id \notin listedIds <=> lastOp'.result.kind = "NotFound"
        /\ lastOp'.id \notin listedIds => UNCHANGED storeVars

C6_Delete == [](C6_Deleted) /\ [][C6_Step]_vars

\* A Dataset with features was deleted and one of another id remains.
C6_Witness ==
    /\ DeleteDone
    /\ lastOp.result.kind = "ok"
    /\ lastOp.result.featureCount > 0
    /\ datasets # {}

\* The kind of the first of steps 1 to 4 that rejects file, stated step by
\* step.
ExpectedKind(file) ==
    CASE ~(Len(file.name) >= 2
           /\ toLowerCase(Last(file.name)) \in {"geojson", "json"})
                                      -> "UnsupportedFileType"
      [] file.size > 10 * 1024 * 1024 -> "PayloadTooLarge"
      [] ~file.parses                 -> "MalformedDocument"
      [] ~Validate(file.doc).ok       -> "InvalidGeoJSON"
      [] OTHER                        -> "ok"

\* C7: the first failing step alone determines the error kind, in the order
\* extension, size, parse, validation, uniqueness, persist; no handler is
\* past step 4, and no row is written, for a file that fails a validation
\* step; handleFileChange checks the extension before the size.
C7_StepOrder ==
    /\ IngestDone =>
          /\ ExpectedKind(lastOp.file) # "ok"
                => /\ lastOp.result.kind = ExpectedKind(lastOp.file)
                   /\ lastOp.result.step \in 1..4
          /\ ExpectedKind(lastOp.file) = "ok"
                => /\ lastOp.result.kind \in {"ok", "DuplicateName",
                                              "StoreFailure"}
                   /\ lastOp.result.step \in {0, 5, 6}
          /\ (toLowerCase(Last(lastOp.file.name)) \notin {"geojson", "json"}
              /\ lastOp.file.size > 10 * 1024 * 1024)
                => handleFileChangeError(lastOp.file) = "Invalid file type"
    /\ \A w \in Workers :
          (pc[w] # "idle" \/ tx[w] # NoTx) => ExpectedKind(req[w].file) = "ok"

\* An invalid document whose name is already taken fails with
\* InvalidGeoJSON.
C7_Witness ==
    /\ IngestFailed
    /\ lastOp.result.kind = "InvalidGeoJSON"
    /\ NameExists(DeriveName(lastOp.file.name))

\* C8: when a Dataset with the derived name exists at the uniqueness check,
\* the ingestion fails with DuplicateName at step 5, no insert is attempted
\* (no row is written and no id is taken from a sequence), and every
\* committed row is unchanged.
C8_Step ==
    \A w \in Workers :
        (pc[w] = "validated" /\ pc'[w] # "validated"
         /\ \E d \in datasets : d.name = req[w].name) =>
            /\ lastOp' = Op("ingest", w, req[w].file, 0,
                            Failure("DuplicateName", 5))
            /\ tx[w] = NoTx /\ tx'[w] = NoTx
            /\ UNCHANGED <<datasets, features, nextDatasetId, nextFeatureId>>

C8_DuplicateName == [][C8_Step]_vars

\* The pre-check rejected an upload whose name is held by a Dataset that
\* owns features.
C8_Witness ==
    /\ IngestFailed
    /\ lastOp.result.kind = "DuplicateName"
    /\ lastOp.result.step = 5
    /\ \E d \in datasets : /\ d.name = DeriveName(lastOp.file.name)
                           /\ d.feature_count > 0

\* The 0-based indexes of the offending features of doc.
InvalidIndexes(doc) ==
    {i \in 0..(Len(doc.features) - 1) : FeatureError(doc.features[i + 1]) # "ok"}

\* C9: validation short-circuits.  When one or more features are invalid
\* the ingestion fails with InvalidGeoJSON carrying the index of the first
\* offending feature and its cause, no list of valid features is returned,
\* and no row is inserted; with features 0 and 1 valid and the type of
\* features[2].geometry misspelled the index is 2.
C9_FirstOffender ==
    LET doc == lastOp.file.doc
    IN  (IngestDone /\ InvalidIndexes(doc) # {}) =>
          /\ lastOp.result.kind = "InvalidGeoJSON"
          /\ lastOp.result.index = Min(InvalidIndexes(doc))
          /\ lastOp.result.cause =
                FeatureError(doc.features[Min(InvalidIndexes(doc)) + 1])
          /\ Validate(doc).features = <<>>
          /\ lastOp.result.datasetId = 0
          /\ (/\ Len(doc.features) >= 3
              /\ InvalidIndexes(doc) \cap {0, 1} = {}
              /\ doc.features[3].geometry.type \notin GeometryTypes)
                => /\ lastOp.result.index = 2
                   /\ lastOp.result.cause = "MalformedType"

InvalidGeoJSONStep ==
    (IngestDone' /\ lastOp'.result.kind = "InvalidGeoJSON")
        => /\ UNCHANGED storeVars
           /\ lastOp' # lastOp => UNCHANGED <<tx, nextDatasetId, nextFeatureId>>

C9_ShortCircuit == [](C9_FirstOffender) /\ [][InvalidGeoJSONStep]_vars

\* features[2].geometry.type is misspelled, features 0 and 1 are valid.
C9_Witness ==
    /\ IngestFailed
    /\ lastOp.file.doc.features = <<PointFeature, PolygonFeature, TypoFeature>>
    /\ lastOp.result.index = 2
    /\ datasets = {} /\ features = {}

RECURSIVE HasUnclosedRing(_)
HasUnclosedRing(g) ==
    \/ /\ g.type \in {"Polygon", "MultiPolygon"}
       /\ \E r \in Range(Rings(g)) : r[1] # r[Len(r)]
    \/ \E i \in 1..Len(g.geometries) : HasUnclosedRing(g.geometries[i])

DocHasUnclosedRing(doc) ==
    \E i \in 1..Len(doc.features) : HasUnclosedRing(doc.features[i].geometry)

\* The first offending feature of doc is a Polygon whose only defect is a
\* ring that is not closed.
FirstDefectIsUnclosedRing(doc) ==
    LET f == doc.features[Min(InvalidIndexes(doc)) + 1]
        g == f.geometry
    IN  /\ f.type = "Feature"
        /\ g.type = "Polygon" /\ g.depth = 3 /\ Len(g.coordinates) = 1
        /\ \A r \in Range(Rings(g)) :
              Len(r) >= 4 /\ \A j \in 1..Len(r) : Len(r[j]) \in {2, 3}
        /\ \E r \in Range(Rings(g)) : r[1] # r[Len(r)]

ValidPolygonsAreClosed(doc) ==
    \A i \in 1..Len(doc.features) :
        LET g == doc.features[i].geometry
        IN  (g.type = "Polygon" /\ ValidateGeometry(g) = "ok") =>
               \A r \in Range(Rings(g)) : Len(r) >= 4 /\ r[1] = r[Len(r)]

C10_Closure ==
    LET doc == lastOp.file.doc
    IN  IngestDone =>
          /\ ValidPolygonsAreClosed(doc)
          /\ DocHasUnclosedRing(doc) =>
                /\ lastOp.result.kind = "InvalidGeoJSON"
                /\ lastOp.result.datasetId = 0
                /\ lastOp.result.index = Min(InvalidIndexes(doc))
                /\ FirstDefectIsUnclosedRing(doc)
                      => lastOp.result.cause = "UnclosedRing"

UnclosedRingStep ==
    (IngestDone' /\ DocHasUnclosedRing(lastOp'.file.doc))
        => /\ UNCHANGED storeVars
           /\ lastOp' # lastOp => UNCHANGED <<tx, nextDatasetId, nextFeatureId>>

C11_EmptyCollection ==
    /\ (IngestDone /\ lastOp.file.doc = EmptyDoc
        /\ ExpectedKind(lastOp.file) = "ok")
          => lastOp.result.kind \in {"ok", "DuplicateName", "StoreFailure"}
    /\ (IngestSucceeded /\ lastOp.file.doc = EmptyDoc)
          => /\ lastOp.result.featureCount = 0
             /\ \A d \in datasets :
                   d.id = lastOp.result.datasetId
                      => d.feature_count = 0 /\ d.bounds = Null
    /\ \A d \in datasets :
          d.bounds = Null <=> OwnedFeatures(features, d.id) = {}

\* A document with zero features was committed.
C11_Witness ==
    /\ IngestSucceeded
    /\ lastOp.file.doc = EmptyDoc
    /\ \E d \in datasets : /\ d.id = lastOp.result.datasetId
                           /\ d.feature_count = 0 /\ d.bounds = Null

\* The properties of a feature of a document, as a mapping (absent
\* properties are the empty mapping).
MappingOf(properties) ==
    IF properties.present THEN properties.entries ELSE {}

EndsInExtension(name) ==
    /\ Len(name) >= 2
    /\ toLowerCase(name[Len(name)]) \in {"geojson", "json"}

\* C13: the size check rejects a file exactly when its byte length is
\* greater than 10 * 1024 * 1024: 10485760 bytes are accepted, 10485761
\* bytes are rejected with PayloadTooLarge by the pipeline, and with "File
\* too large" by handleFileChange.
C13_SizeCeiling ==
    IngestDone =>
        LET f == lastOp.file
        IN  /\ EndsInExtension(f.name) =>
                  /\ lastOp.result.kind = "PayloadTooLarge"
                        <=> f.size > 10 * 1024 * 1024
                  /\ handleFileChangeError(f) = "File too large"
                        <=> f.size > 10 * 1024 * 1024
                  /\ handleFileChangeError(f) = "none"
                        <=> f.size <= 10 * 1024 * 1024
            /\ (EndsInExtension(f.name) /\ f.size = 10485760)
                  => lastOp.result.step # 2
            /\ (EndsInExtension(f.name) /\ f.size = 10485761)
                  => lastOp.result.step = 2

\* A file of 10485761 bytes was rejected after one of 10485760 bytes had
\* been committed.
C13_Witness ==
    /\ IngestFailed
    /\ lastOp.result.kind = "PayloadTooLarge"
    /\ lastOp.file.size = 10485761
    /\ handleFileChangeError(lastOp.file) = "File too large"
    /\ \E d \in datasets : d.file_size_bytes = 10485760

\* C14 as claimed: a file is rejected unless its name ends in .geojson or
\* .json, compared case-insensitively; handleFileChange accepts a file only
\* if its name ends in one of these extensions and rejects every other
\* name, a name with no dot included, with "Invalid file type".
C14_Original ==
    IngestDone =>
        LET f == lastOp.file
        IN  /\ lastOp.result.kind = "UnsupportedFileType"
                  <=> ~EndsInExtension(f.name)
            /\ handleFileChangeError(f) = "Invalid file type"
                  <=> ~EndsInExtension(f.name)

\* The step is a read of the client.
ReadStep == lastRead' # lastRead

\* C15: listDatasets(skip, limit) returns at most min(limit, 1000) datasets,
\* ordered by upload time descending, starting after the first skip
\* datasets of that order, together with the total count of all datasets,
\* whatever skip and limit are.
C15_ListStep ==
    (ReadStep /\ lastRead'.op = "getDatasets") =>
        LET r == lastRead'.result.data
            skip == lastRead'.skip
            limit == lastRead'.limit
            newer(d) == {e \in datasets : e.uploaded_at > d.uploaded_at}
        IN  /\ lastRead'.result.thrown = "none"
            /\ Len(r.datasets) <= limit
            /\ Len(r.datasets) <= 1000
            /\ r.total = Cardinality(datasets)
            /\ \A i \in 1..Len(r.datasets) :
                  /\ r.datasets[i] \in datasets
                  /\ Cardinality(newer(r.datasets[i])) = skip + i - 1
            /\ (Len(r.datasets) < limit /\ Len(r.datasets) < 1000)
                  => Len(r.datasets) = Max({0, r.total - skip})

Again(r) ==
    CASE r.op = "getDataset" -> GeoSpotAPI_getDataset(r.id)
      [] r.op = "getDatasets" -> getDatasets(r.skip, r.limit)
      [] r.op = "getDatasetGeoJSON" -> getDatasetGeoJSON(r.id)
      [] OTHER -> r.result

\* C16: reads are idempotent and free of side effects.  A getDataset,
\* listDatasets or exportGeoJSON call leaves the store as it was and the
\* same call made again right after it returns the identical result; a step
\* that neither commits an ingest nor deletes does not change what the call
\* returns.
C16_ReadStep ==
    /\ ReadStep =>
          /\ UNCHANGED <<datasets, features, nextDatasetId, nextFeatureId,
                         pc, req, tx, aborted, started, lastOp>>
          /\ Again(lastRead)' = lastRead'.result
    /\ (UNCHANGED storeVars /\ ~ReadStep) => Again(lastRead)' = Again(lastRead)

C18_Step ==
    /\ \A f \in features :
          \/ f \in features'
          \/ /\ lastOp'.op = "delete"
             /\ lastOp'.result.kind = "ok"
             /\ lastOp'.id = f.dataset_id
             /\ f.dataset_id \notin {d.id : d \in datasets'}
    /\ \A f \in features, g \in features' : g.id = f.id => g = f

C18_ImmutableFeatures == [][C18_Step]_vars

\* A dataset was deleted and the features of another dataset are still
\* there, after reads.
C18_Witness ==
    /\ lastOp.op = "delete"
    /\ lastOp.result.kind = "ok"
    /\ lastOp.result.featureCount > 0
    /\ features # {}
    /\ lastRead.op # "none"

\* The request req of a run has settled with a response that is not OK.
NotOk(r) == r.settled /\ r.response.status # 0 /\ ~r.response.ok

\* The message the claim expects for a response that is not OK.
ForwardedMessage(response) ==
    IF response.json /\ response.detail # "" THEN response.detail
    ELSE "API error: " \o ToString(response.status)

\* C17 as claimed: when a response is not OK, the Error thrown by
\* GeoSpotAPI.request and getDatasetGeoJSON carries the detail of the body
\* unchanged, or a fallback naming the status code when the body has no
\* non-empty detail, and the page stores exactly that message as its error
\* state.
C17_ForwardStep ==
    \A i \in 1..Len(runs) :
        /\ (~runs[i].dataset.settled /\ NotOk(runs'[i].dataset))
              => /\ requestResult(runs'[i].dataset.response).thrown
                       = ForwardedMessage(runs'[i].dataset.response)
                 /\ error' = ForwardedMessage(runs'[i].dataset.response)
        /\ (~runs[i].geojson.settled /\ NotOk(runs'[i].geojson))
              => /\ geojsonResult(runs'[i].geojson.response).thrown
                       = ForwardedMessage(runs'[i].geojson.response)
                 /\ error' = ForwardedMessage(runs'[i].geojson.response)

C17_Original == [][C17_ForwardStep]_vars

\* Nothing is left to happen in the page: every run of fetchData has
\* finished, no re-render and no effect is due.
Quiescent ==
    /\ ~effectDue
    /\ ~renderDue
    /\ \A i \in 1..Len(runs) : runs[i].finished

\* A request of the last run of fetchData, made for the current id, failed.
LastRunFailed ==
    /\ runs # <<>>
    /\ Last(runs).id = routeId
    /\ \/ requestResult(Last(runs).dataset.response).thrown # "none"
       \/ geojsonResult(Last(runs).geojson.response).thrown # "none"

\* C19 as claimed: when the getDataset or the getDatasetGeoJSON request for
\* the current id has failed and both requests have settled, the page does
\* not stay on the loading spinner: once nothing is left to happen it shows
\* the error message.
C19_Original == (Quiescent /\ LastRunFailed) => View = "ErrorMessage"

\* C20 as claimed: the data-loading effect re-runs only when the route id
\* changes, so the component sends one getDataset and one getDatasetGeoJSON
\* request after mounting and one more pair for each change of the id.
C20_Original == Len(runs) <= 1 + navigations

\* C28 as claimed: when the route id has changed while requests for the
\* previous id were pending, a late response for the previous id does not
\* overwrite the state: once every request has settled and the requests for
\* the current id have succeeded, dataset and geojsonData are the responses
\* to the requests for the current id.
C28_Original ==
    (Quiescent /\ navigations > 0 /\ runs # <<>>
        /\ Last(runs).id = routeId /\ ~LastRunFailed)
    => /\ dataset = requestResult(Last(runs).dataset.response).data
       /\ geojsonData = geojsonResult(Last(runs).geojson.response).data

\* C22 as claimed: in every state of DatasetList currentPage >= 0 and either
\* currentPage = 0 or currentPage * 100 < total.
C22_Original ==
    /\ currentPage >= 0
    /\ currentPage = 0 \/ currentPage * PageSize < total

\* C23 as claimed: in DatasetList, whenever no request is in flight and no
\* error is set, the datasets and the total displayed are the response to the
\* request for the current page (skip = currentPage * 100); and loading is
\* true whenever a list request is in flight.
C23_Original ==
    /\ (listRequests = <<>> /\ deleteRequests = <<>> /\ listError = NoError)
       => shownSkip = currentPage * PageSize
    /\ listRequests # <<>> => listLoading

\* The messages a failed delete request throws.
DeleteFailures == {request(f) : f \in Faults} \cup {"Dataset not found"}

\* A delete request is sent in this step, settles with success, settles
\* with a failure.
DeleteSent == Len(deleteRequests') > Len(deleteRequests)

DeleteSucceeded ==
    /\ Len(deleteRequests') < Len(deleteRequests)
    /\ Cardinality(datasets') < Cardinality(datasets)

DeleteFailed ==
    /\ Len(deleteRequests') < Len(deleteRequests)
    /\ datasets' = datasets

C21_Step ==
    /\ DeleteSent =>
          /\ lastConfirm' = "accepted"
          /\ UNCHANGED <<serverVars, lastRead, pageVars, listVars, navigatedTo>>
    /\ (lastConfirm' = "declined" /\ lastConfirm # "declined") =>
          UNCHANGED <<serverVars, lastRead, pageVars, listVars, navigatedTo,
                      deleteRequests>>
    /\ DeleteSucceeded =>
          IF mode = "list"
          THEN /\ Len(listRequests') = Len(listRequests) + 1
               /\ Last(listRequests').skip \in {0, PageSize}
               /\ listLoading'
               /\ navigatedTo' = navigatedTo
          ELSE /\ navigatedTo' = "/datasets"
               /\ UNCHANGED pageVars
    /\ DeleteFailed =>
          /\ navigatedTo' = navigatedTo
          /\ listRequests' = listRequests
          /\ IF mode = "list"
             THEN listError' \in DeleteFailures
             ELSE error' \in DeleteFailures

\* C21: a delete request is sent only in the step in which the user confirms
\* the dialog; declining the dialog sends no request and changes no state; a
\* delete that succeeds makes DatasetList fetch the list again and makes
\* DatasetDetail navigate to /datasets; a delete that fails sets the error
\* to the failure message, and neither the refetch nor the navigation
\* happens.
C21_ConfirmedDelete == [][C21_Step]_vars

\* A confirmed delete of DatasetList has succeeded and its refetch is in
\* flight, after a dialog was declined.
C21_Witness ==
    /\ mode = "list"
    /\ Deleted = 1
    /\ listRequests # <<>>
    /\ lastConfirm = "declined"

\* C26 as claimed: in every state of the Upload page error and uploadResult
\* are not both set.
C26_Original == ~(uploadError # NoError /\ uploadResult # Null)

\* C27 as claimed: the prompt of a setTimeout callback is shown only while
\* the result it refers to is the uploadResult of the mounted page.
C27_Original == lastPrompt.current

\* The checks of handleFileChange, stated on the file: its last name
\* segment, in lower case, is geojson or json, and it has at most 10485760
\* bytes.
Checked(f) ==
    /\ toLowerCase(f.name[Len(f.name)]) \in {"geojson", "json"}
    /\ f.size <= 10485760

C24_Step ==
    /\ started' # started =>
          /\ started' = started + 1
          /\ Len(uploadRequests') = Len(uploadRequests) + 1
    /\ Len(uploadRequests') < Len(uploadRequests) =>
          /\ Len(uploadRequests') = Len(uploadRequests) - 1
          /\ started' = started
          /\ ~uploading'
    /\ Len(uploadRequests') > Len(uploadRequests) => started' = started + 1

\* C24: in the Upload page at most one upload request is in flight,
\* uploading is true exactly while it is pending and false again once it has
\* settled; a click on Upload sends exactly one request, and a step in which
\* a request settles, with success or failure, sends none.
C24_OneUpload ==
    /\ [](Len(uploadRequests) <= 1 /\ (uploading <=> uploadRequests # <<>>))
    /\ [][C24_Step]_vars

\* The second upload is in flight after the first one failed.
C24_Witness ==
    /\ started = 2
    /\ uploading
    /\ Len(uploadRequests) = 1
    /\ datasets = {}

C25_Step ==
    (/\ uploadError' # uploadError
     /\ uploadError' \in {"Invalid file type", "File too large"})
    => /\ fileState' = fileState
       /\ uploadRequests' = uploadRequests

\* C25: the file in the state of the Upload page is null or a file that
\* passed the extension check and the size check, and so is the file of
\* every upload request; a selection that is rejected sets an error and
\* leaves the file unchanged; handleUpload with no file sets an error and
\* sends no request.
C25_CheckedFile ==
    /\ [](/\ fileState = NoFile \/ Checked(fileState)
          /\ \A i \in 1..Len(uploadRequests) : Checked(uploadRequests[i])
          /\ handleUploadStart(NoFile).sends = <<>>
          /\ handleUploadStart(NoFile).error = "Please select a file first")
    /\ [][C25_Step]_vars

\* A selection has been rejected while a checked file was held, after an
\* upload.
C25_Witness ==
    /\ fileState # NoFile
    /\ uploadError = "File too large"
    /\ started > 0

\* C29 as claimed: once the effects have run, the localStorage item, the
\* data-theme attribute and darkMode denote the same theme, and after a
\* reload that theme is the saved one, or the system preference when nothing
\* was saved.
C29_Original ==
    (effects = <<>> /\ updates = <<>>)
    => /\ storedTheme = ThemeOf(darkMode)
       /\ dataTheme = ThemeOf(darkMode)
       /\ ~toggled => ThemeOf(darkMode) = initializeTheme(savedTheme, prefersDark)

====
